---- MODULE Spec2Model ----
(***************************************************************************)
(* Model of sentry/api/serializers/models/release.py:                      *)
(*   - get_users_for_authors and its memoization layer over the cache,     *)
(*     run against a User / OrganizationMember / UserEmail database that   *)
(*     changes between calls;                                              *)
(*   - ReleaseSerializer.get_attrs and its helpers, applied to query       *)
(*     results drawn from bounded sets.                                    *)
(***************************************************************************)
EXTENDS Integers, Sequences, FiniteSets, TLC

\* ------------------------------------------------------------------ bounds

\* Users 1..NumUsers exist in the User table.
NumUsers == 2
\* Organizations 1..NumOrgs.
NumOrgs == 1
\* UserEmail rows have ids 1..NumUserEmails.
NumUserEmails == 2
\* The longest list of authors one call passes.
MaxAuthors == 2

\* Releases 1..NumReleases and projects 1..NumProjects exist.
NumReleases == 2
NumProjects == 2
\* Timestamps are 1..MaxTime (a datetime is never falsy).
MaxTime == 2
\* new_groups and new_issues_count are 0..MaxCount.
MaxCount == 2
\* The longest query result drawn for a table.
MaxRows == 2

\* Python's None where the other values are integers (ids, counts and
\* timestamps are all >= 0).
None == -1

UserIds == 1..NumUsers
OrgIds == 1..NumOrgs

\* ------------------------------------------------------------------ emails

\* An email is a sequence of characters; two of the alphabet's characters
\* are an upper-case letter and its lower-case form.
Chars == {"A", "a", "b"}
Emails == {<<c>> : c \in Chars}

\* CommitAuthor.name of the row with the given id: each row has its own.
NameOf(id) == <<"name", id>>

\* str.lower() on one character.
LowerChar(c) == IF c = "A" THEN "a" ELSE IF c = "B" THEN "b" ELSE c

\* str.lower(): every character lower-cased.
Lower(e) == [i \in DOMAIN e |-> LowerChar(e[i])]

\* md5_text(s).hexdigest(): a digest, taken to be collision-free on the
\* emails of the model.
md5_text(s) == <<"md5", s>>

\* The cache key of an author: the organization and the hash of the
\* lower-cased email.
_user_to_author_cache_key(organization_id, author) ==
  <<"get_users_for_authors", organization_id, md5_text(Lower(author.email))>>

\* ------------------------------------------------------------------ state

VARIABLES
  cache,        \* django cache: a dict key -> value (DOMAIN = keys present)
  is_active,    \* User.is_active, by user id
  members,      \* OrganizationMember rows: <<organization_id, user_id>>
  user_emails,  \* UserEmail rows: [id, user_id, email]
  inp,          \* get_attrs: arguments and query results of the call
  out           \* get_attrs: outcome of the call

vars == <<cache, is_active, members, user_emails, inp, out>>

\* The empty dict.
EmptyDict == [k \in {} |-> None]

\* A CommitAuthor row as the caller passes it.
CommitAuthors ==
  {[id |-> i, name |-> NameOf(i), email |-> e] : i \in 1..MaxAuthors, e \in Emails}

\* The author lists a call may pass: rows with distinct ids.
AuthorLists ==
  {s \in UNION {[1..n -> CommitAuthors] : n \in 0..MaxAuthors} :
     \A i, j \in DOMAIN s : i # j => s[i].id # s[j].id}

\* User.email of a user: each user has its own.
UserEmailOf(user_id) == <<"u", ToString(user_id)>>

\* serialize(user): the serialized user carries the id as a string and the
\* user's email.
serialize_user(user_id) == [id |-> ToString(user_id), email |-> UserEmailOf(user_id)]

\* The {name, email} dict representation of an author.
author_dict(author) == [name |-> author.name, email |-> author.email]

\* Whether a returned value is a serialized user rather than an author dict.
IsSerializedUser(v) == "id" \in DOMAIN v

\* Python truthiness of an integer or None.
Truthy(v) == v # None /\ v # 0

\* dict.get(k, default)
DictGet(d, k, default) == IF k \in DOMAIN d THEN d[k] ELSE default

\* d[k] = v
DictSet(d, k, v) == [x \in DOMAIN d \cup {k} |-> IF x = k THEN v ELSE d[x]]

\* cache.get_many(keys) on cache contents c: the entries present, no entry
\* for an absent key.
get_many(c, keys) == [k \in keys \cap DOMAIN c |-> c[k]]

\* cache.set_many(to_cache) on cache contents c.
set_many(c, to_cache) ==
  [k \in DOMAIN c \cup DOMAIN to_cache |->
     IF k \in DOMAIN to_cache THEN to_cache[k] ELSE c[k]]

\* ---------------------------------------------------- get_users_for_authors

\* Lines 74-80: the authors the fetched dict has no value for, in order.
RECURSIVE MissedOf(_, _, _)
MissedOf(organization_id, authors, fetched) ==
  IF authors = <<>> THEN <<>>
  ELSE LET author == Head(authors)
           rest == MissedOf(organization_id, Tail(authors), fetched)
       IN IF _user_to_author_cache_key(organization_id, author) \in DOMAIN fetched
          THEN rest
          ELSE <<author>> \o rest

\* Lines 74-80 with the hits keyed by the author's email instead of the id.
RECURSIVE HitResultsByEmail(_, _, _, _)
HitResultsByEmail(organization_id, authors, fetched, results) ==
  IF authors = <<>> THEN results
  ELSE LET author == Head(authors)
           key == _user_to_author_cache_key(organization_id, author)
       IN HitResultsByEmail(organization_id, Tail(authors), fetched,
            IF key \in DOMAIN fetched
            THEN DictSet(results, author.email[1], fetched[key])
            ELSE results)

\* Lines 74-80: results after the loop over the fetched entries.
RECURSIVE HitResults(_, _, _, _)
HitResults(organization_id, authors, fetched, results) ==
  IF authors = <<>> THEN results
  ELSE LET author == Head(authors)
           key == _user_to_author_cache_key(organization_id, author)
       IN HitResults(organization_id, Tail(authors), fetched,
            IF key \in DOMAIN fetched
            THEN DictSet(results, ToString(author.id), fetched[key])
            ELSE results)

\* in_iexact("email", values): the rows whose email equals one of the values
\* ignoring case.
in_iexact(rows, values) ==
  {ue \in rows : \E v \in values : Lower(ue.email) = Lower(v)}

\* order_by("id"): the rows as a list of ascending id.
RECURSIVE order_by_id(_)
order_by_id(rows) ==
  IF rows = {} THEN <<>>
  ELSE LET first == CHOOSE r \in rows : \A q \in rows : r.id <= q.id
       IN <<first>> \o order_by_id(rows \ {first})

\* Lines 92-96 without the organization filter.
UsersQueryAnyOrg(organization_id, ids) == {u \in ids : is_active[u]}

\* Lines 92-96: the users among ids that are active and members of the
\* organization.
UsersQuery(organization_id, ids) ==
  {u \in ids : is_active[u] /\ <<organization_id, u>> \in members}

\* Lines 100-109 with the first row of a lower-cased email taking the slot
\* whether or not its user is in users_by_id.
UsersByEmailFirstRowBlocks(rows, users_by_id, users_by_email) ==
  LET first(e) == CHOOSE i \in DOMAIN rows :
                    /\ Lower(rows[i].email) = e
                    /\ \A j \in DOMAIN rows : Lower(rows[j].email) = e => i <= j
      found == {e \in {Lower(rows[i].email) : i \in DOMAIN rows} :
                  ToString(rows[first(e)].user_id) \in DOMAIN users_by_id}
  IN [e \in found \cup DOMAIN users_by_email |->
        IF e \in DOMAIN users_by_email THEN users_by_email[e]
        ELSE users_by_id[ToString(rows[first(e)].user_id)]]

\* Lines 100-109: the loop over the UserEmail rows; the first row of a
\* lower-cased email whose user is in users_by_id takes the slot.
RECURSIVE UsersByEmail(_, _, _)
UsersByEmail(rows, users_by_id, users_by_email) ==
  IF rows = <<>> THEN users_by_email
  ELSE LET email == Head(rows)
           lower_email == Lower(email.email)
           uid == ToString(email.user_id)
       IN UsersByEmail(Tail(rows), users_by_id,
            IF lower_email \notin DOMAIN users_by_email /\ uid \in DOMAIN users_by_id
            THEN DictSet(users_by_email, lower_email, users_by_id[uid])
            ELSE users_by_email)

\* Lines 86-109: users_by_email for the missed authors.
ResolveMissed(organization_id, missed) ==
  LET rows == order_by_id(
                in_iexact(user_emails, {missed[i].email : i \in DOMAIN missed}))
      users == UsersQuery(organization_id,
                 {rows[i].user_id : i \in DOMAIN rows})
      users_by_id == [s \in {ToString(u) : u \in users} |->
                        serialize_user(CHOOSE u \in users : ToString(u) = s)]
  IN UsersByEmail(rows, users_by_id, EmptyDict)

\* Lines 111-115: results and to_cache after the loop over the missed
\* authors, as <<results, to_cache>>.
RECURSIVE MissedLoop(_, _, _, _, _)
MissedLoop(organization_id, missed, users_by_email, results, to_cache) ==
  IF missed = <<>> THEN <<results, to_cache>>
  ELSE LET author == Head(missed)
           value == DictGet(users_by_email, Lower(author.email), author_dict(author))
       IN MissedLoop(organization_id, Tail(missed), users_by_email,
            DictSet(results, ToString(author.id), value),
            DictSet(to_cache, _user_to_author_cache_key(organization_id, author), value))

\* get_users_for_authors(organization_id, authors) run on cache contents c:
\* what it fetched, missed, wrote and returned, and the cache it leaves.
get_users_for_authors(c, organization_id, authors) ==
  LET fetched == get_many(c, {_user_to_author_cache_key(organization_id, authors[i]) :
                                i \in DOMAIN authors})
      missed == IF fetched # EmptyDict
                THEN MissedOf(organization_id, authors, fetched)
                ELSE authors
      hit_results == IF fetched # EmptyDict
                     THEN HitResults(organization_id, authors, fetched, EmptyDict)
                     ELSE EmptyDict
      done == IF missed # <<>>
              THEN MissedLoop(organization_id, missed,
                     ResolveMissed(organization_id, missed), hit_results, EmptyDict)
              ELSE <<hit_results, EmptyDict>>
  IN [fetched |-> fetched,
      missed |-> missed,
      to_cache |-> done[2],
      results |-> done[1],
      cache |-> IF missed # <<>> THEN set_many(c, done[2]) ELSE c]

\* A request calls get_users_for_authors: the cache takes what it wrote.
GetUsersForAuthors ==
  \E organization_id \in OrgIds, authors \in AuthorLists :
    /\ cache' = get_users_for_authors(cache, organization_id, authors).cache
    /\ UNCHANGED <<is_active, members, user_emails, inp, out>>

\* ------------------------------------------------------------- get_attrs

\* Lines 293-299: environments after the keyword arguments are read, <<>> for
\* None and <<names>> for a list of names. The environments argument is a
\* list of names (<<>> when absent, None or empty); the environment argument
\* is <<>> when absent or <<e>> for an environment object e.
NormalizeEnvironments(environment, environments) ==
  IF environments # <<>> THEN <<environments>>
  ELSE IF environment # <<>> THEN << <<environment[1].name>> >>
  ELSE <<>>

\* The ids of the releases of item_list (release__in=item_list).
ReleaseIds(item_list) == {item_list[i].id : i \in DOMAIN item_list}

\* Release.version of the release with the given id: each release has its
\* own.
VersionOf(release_id) == <<"v", ToString(release_id)>>

\* Lines 207-227: the project ids to look tags up for (the list is only
\* tested for membership) and whether they come from the releases themselves.
__get_project_id_list(item_list) ==
  LET project_ids == {item_list[i]._for_project_id :
                        i \in {j \in DOMAIN item_list : item_list[j]._for_project_id # None}}
      need_fallback == \E i \in DOMAIN item_list : item_list[i]._for_project_id = None
  IN IF ~need_fallback
     THEN [project_ids |-> project_ids, specialized |-> TRUE]
     ELSE [project_ids |->
             {inp.release_projects[i].project_id :
                i \in {j \in DOMAIN inp.release_projects :
                         inp.release_projects[j].release_id \in ReleaseIds(item_list)}},
           specialized |-> FALSE]

\* tagstore.get_release_tags(project_ids, environment_id=None, versions): the
\* release tag values of those projects and versions, in the order the tag
\* store returns them.
get_release_tags(project_ids, versions) ==
  LET Keep(tv) == tv.project_id \in project_ids /\ tv.value \in versions
  IN SelectSeq(inp.tag_values, Keep)

\* Lines 241-245 keeping the first row's values.
RECURSIVE SeenNoEnvironmentFirstRow(_, _, _)
SeenNoEnvironmentFirstRow(tag_values, first_seen, last_seen) ==
  IF tag_values = <<>> THEN <<first_seen, last_seen>>
  ELSE LET tv == Head(tag_values)
           first_val == DictGet(first_seen, tv.value, None)
           last_val == DictGet(last_seen, tv.value, None)
       IN SeenNoEnvironmentFirstRow(Tail(tag_values),
            DictSet(first_seen, tv.value,
                    IF Truthy(first_val) THEN first_val ELSE tv.first_seen),
            DictSet(last_seen, tv.value,
                    IF Truthy(last_val) THEN last_val ELSE tv.last_seen))

\* Lines 241-245: first_seen and last_seen by version after the loop over the
\* tag values, as <<first_seen, last_seen>>.
RECURSIVE SeenNoEnvironment(_, _, _)
SeenNoEnvironment(tag_values, first_seen, last_seen) ==
  IF tag_values = <<>> THEN <<first_seen, last_seen>>
  ELSE LET tv == Head(tag_values)
           first_val == DictGet(first_seen, tv.value, None)
           last_val == DictGet(last_seen, tv.value, None)
           min_first == IF tv.first_seen <= first_val THEN tv.first_seen ELSE first_val
           max_last == IF tv.last_seen >= last_val THEN tv.last_seen ELSE last_val
       IN SeenNoEnvironment(Tail(tag_values),
            DictSet(first_seen, tv.value,
                    IF Truthy(first_val) THEN min_first ELSE tv.first_seen),
            DictSet(last_seen, tv.value,
                    IF Truthy(last_val) THEN max_last ELSE tv.last_seen))

\* Lines 248-252: group counts by release when a project is given.
RECURSIVE GroupCountsForProject(_, _, _)
GroupCountsForProject(project, rows, counts) ==
  IF rows = <<>> THEN counts
  ELSE LET row == Head(rows)
       IN GroupCountsForProject(project, Tail(rows),
            DictSet(counts, row.release_id,
                    DictSet(EmptyDict, project, row.new_groups)))

\* Lines 254-257 and 281-284: group counts by release and project
\* (setdefault(release_id, {})[project_id] = count).
RECURSIVE GroupCountsByProject(_, _)
GroupCountsByProject(rows, counts) ==
  IF rows = <<>> THEN counts
  ELSE LET row == Head(rows)
       IN GroupCountsByProject(Tail(rows),
            DictSet(counts, row.release_id,
                    DictSet(DictGet(counts, row.release_id, EmptyDict),
                            row.project_id, row.count)))

\* Lines 229-258: __get_release_data_no_environment.
__get_release_data_no_environment(project, item_list) ==
  LET project_ids == IF project # None THEN {project}
                     ELSE __get_project_id_list(item_list).project_ids
      tag_values == get_release_tags(project_ids,
                      {item_list[i].version : i \in DOMAIN item_list})
      seen == SeenNoEnvironment(tag_values, EmptyDict, EmptyDict)
      ForProject(rp) == rp.project_id = project /\ rp.release_id \in ReleaseIds(item_list)
      NotNull(rp) == rp.release_id \in ReleaseIds(item_list) /\ rp.new_groups # None
      WithCount(rows) == [i \in DOMAIN rows |->
                            [release_id |-> rows[i].release_id,
                             project_id |-> rows[i].project_id,
                             count |-> rows[i].new_groups]]
  IN [first_seen |-> seen[1],
      last_seen |-> seen[2],
      group_counts_by_release |->
        IF project # None
        THEN GroupCountsForProject(project, SelectSeq(inp.release_projects, ForProject),
                                   EmptyDict)
        ELSE GroupCountsByProject(WithCount(SelectSeq(inp.release_projects, NotNull)),
                                  EmptyDict)]

\* Lines 268-278: first_seen and last_seen by version after the loop over the
\* ReleaseProjectEnvironment rows, as <<first_seen, last_seen>>.
RECURSIVE SeenWithEnvironments(_, _, _)
SeenWithEnvironments(rows, first_seen, last_seen) ==
  IF rows = <<>> THEN <<first_seen, last_seen>>
  ELSE LET row == Head(rows)
       IN SeenWithEnvironments(Tail(rows),
            IF row.version \notin DOMAIN first_seen
               \/ first_seen[row.version] > row.first_seen
            THEN DictSet(first_seen, row.version, row.first_seen) ELSE first_seen,
            IF row.version \notin DOMAIN last_seen
               \/ last_seen[row.version] < row.last_seen
            THEN DictSet(last_seen, row.version, row.last_seen) ELSE last_seen)

\* Lines 261-265: the ReleaseProjectEnvironment rows of the releases and
\* environments, of the project when one is given, in query order, each with
\* its release's version (select_related).
release_project_envs(project, item_list, environments) ==
  LET Keep(row) ==
        /\ row.release_id \in ReleaseIds(item_list)
        /\ \E i \in DOMAIN environments : environments[i] = row.environment
        /\ project # None => row.project_id = project
      rows == SelectSeq(inp.release_project_envs, Keep)
  IN [i \in DOMAIN rows |->
        [release_id |-> rows[i].release_id,
         version |-> VersionOf(rows[i].release_id),
         project_id |-> rows[i].project_id,
         first_seen |-> rows[i].first_seen,
         last_seen |-> rows[i].last_seen,
         new_issues_count |-> rows[i].new_issues_count]]

\* Lines 260-286: __get_release_data_with_environments. The aggregate is
\* annotated on the rows themselves, so each row carries its own
\* new_issues_count.
__get_release_data_with_environments(project, item_list, environments) ==
  LET rows == release_project_envs(project, item_list, environments)
      seen == SeenWithEnvironments(rows, EmptyDict, EmptyDict)
      WithCount == [i \in DOMAIN rows |->
                      [release_id |-> rows[i].release_id,
                       project_id |-> rows[i].project_id,
                       count |-> rows[i].new_issues_count]]
  IN [first_seen |-> seen[1],
      last_seen |-> seen[2],
      group_counts_by_release |-> GroupCountsByProject(WithCount, EmptyDict)]

\* The Project row joined to a ReleaseProject row.
ProjectRow(project_id) ==
  [slug |-> <<"slug", ToString(project_id)>>,
   name |-> <<"name", ToString(project_id)>>,
   platform |-> "python"]

\* The ProjectPlatform rows of a project, as the list of their platforms.
PlatformsOf(project_id) == IF project_id = 1 THEN <<"python">> ELSE <<>>

\* Lines 139-157: users_by_author and the cache after it, for the
\* CommitAuthor rows in the order the query returned them.
UsersByAuthor(item_list, authors) ==
  LET org_ids == {item_list[i].organization_id : i \in DOMAIN item_list}
  IN IF authors # <<>> /\ Cardinality(org_ids) = 1
     THEN LET r == get_users_for_authors(cache, CHOOSE o \in org_ids : TRUE, authors)
          IN [users_by_author |-> r.results, cache |-> r.cache]
     ELSE [users_by_author |-> EmptyDict, cache |-> cache]

\* Lines 168-173: the authors of one release, one entry per email.
RECURSIVE ItemAuthors(_, _, _, _)
ItemAuthors(author_ids, users_by_author, item_authors, seen_authors) ==
  IF author_ids = <<>> THEN item_authors
  ELSE LET a == Head(author_ids)
       IN IF a \in DOMAIN users_by_author
             /\ users_by_author[a].email \notin seen_authors
          THEN ItemAuthors(Tail(author_ids), users_by_author,
                 Append(item_authors, users_by_author[a]),
                 seen_authors \cup {users_by_author[a].email})
          ELSE ItemAuthors(Tail(author_ids), users_by_author, item_authors,
                 seen_authors)

\* Lines 326-334: the ReleaseProject rows of the releases, in query order.
project_releases(item_list) ==
  LET Keep(rp) == rp.release_id \in ReleaseIds(item_list)
  IN SelectSeq(inp.release_projects, Keep)

\* Lines 343-359: the health lookup made, if any.
HealthLookup ==
  IF inp.with_health_data THEN <<"get_release_health_data_overview">>
  ELSE IF inp.no_snuba THEN <<>>
  ELSE <<"check_has_health_data">>

\* Lines 362-379: the entry of one ReleaseProject row.
ProjectEntry(pr) ==
  LET base == [id |-> pr.project_id,
               slug |-> ProjectRow(pr.project_id).slug,
               name |-> ProjectRow(pr.project_id).name,
               new_groups |-> pr.new_groups,
               platform |-> ProjectRow(pr.project_id).platform,
               platforms |-> PlatformsOf(pr.project_id)]
      pair == <<pr.project_id, VersionOf(pr.release_id)>>
  IN IF inp.with_health_data
     THEN [health_data |-> IF pair \in inp.health
                           THEN <<[has_health_data |-> TRUE]>> ELSE <<>>,
           has_health_data |-> pair \in inp.health] @@ base
     ELSE [has_health_data |-> ~inp.no_snuba /\ pair \in inp.health] @@ base

\* Lines 361-380 and 384: release_projects.get(item.id, []), the entries of
\* the rows of one release in query order.
ReleaseProjects(rows, release_id) ==
  LET Keep(pr) == pr.release_id = release_id
      mine == SelectSeq(rows, Keep)
  IN [i \in DOMAIN mine |-> ProjectEntry(mine[i])]

\* Lines 386-389 without the filter on _for_project_id.
SingleReleaseProjectsUnfiltered(item, rows) == ReleaseProjects(rows, item.id)

\* Lines 384-389: the projects attribute of one release.
SingleReleaseProjects(item, rows) ==
  LET Keep(x) == x.id = item._for_project_id
  IN IF item._for_project_id # None
     THEN SelectSeq(ReleaseProjects(rows, item.id), Keep)
     ELSE ReleaseProjects(rows, item.id)

\* sum(d.values()): adding None to an integer raises TypeError.
RECURSIVE SumValues(_, _)
SumValues(d, keys) ==
  IF keys = {} THEN 0
  ELSE LET k == CHOOSE x \in keys : TRUE
       IN d[k] + SumValues(d, keys \ {k})

PySum(d) ==
  IF \E k \in DOMAIN d : d[k] = None
  THEN [raised |-> TRUE, value |-> None]
  ELSE [raised |-> FALSE, value |-> SumValues(d, DOMAIN d)]

\* Lines 386-394: release_new_groups of one release, with whether computing
\* it raised.
ReleaseNewGroups(item, issue_counts_by_release) ==
  LET counts == DictGet(issue_counts_by_release, item.id, EmptyDict)
      one == DictGet(counts, item._for_project_id, None)
  IN IF item._for_project_id # None
     THEN [raised |-> FALSE, value |-> IF Truthy(one) THEN one ELSE 0]
     ELSE PySum(counts)

TypeErrorHealth == "TypeError: health data requires snuba"

TypeErrorSum == "TypeError: unsupported operand type(s) for +: 'int' and 'NoneType'"

\* Lines 309-408: get_attrs after the keyword arguments are checked.
get_attrs_lookups(authors) ==
  LET item_list == inp.item_list
      environments == NormalizeEnvironments(inp.environment, inp.environments)
      data == IF environments = <<>>
              THEN __get_release_data_no_environment(inp.project, item_list)
              ELSE __get_release_data_with_environments(inp.project, item_list,
                                                      environments[1])
      users == UsersByAuthor(item_list, authors)
      rows == project_releases(item_list)
      new_groups == [i \in DOMAIN item_list |->
                       ReleaseNewGroups(item_list[i], data.group_counts_by_release)]
      raised == \E i \in DOMAIN item_list : new_groups[i].raised
  IN [raised |-> IF raised THEN TypeErrorSum ELSE "",
      attrs |->
        IF raised THEN <<>>
        ELSE [i \in DOMAIN item_list |->
                [new_groups |-> new_groups[i].value,
                 projects |-> SingleReleaseProjects(item_list[i], rows),
                 first_seen |-> DictGet(data.first_seen, item_list[i].version, None),
                 last_seen |-> DictGet(data.last_seen, item_list[i].version, None),
                 authors |-> ItemAuthors(item_list[i].authors, users.users_by_author,
                                         <<>>, {})]],
      lookups |-> <<"release_data", "owners", "commit_metadata", "deploy_metadata",
                    "release_projects", "platforms">> \o HealthLookup,
      cache |-> users.cache]

\* Lines 288-408 with the check of the keyword arguments made after the
\* lookups.
get_attrs_check_last(authors) ==
  LET r == get_attrs_lookups(authors)
  IN IF inp.with_health_data /\ inp.no_snuba
     THEN [raised |-> TypeErrorHealth, attrs |-> <<>>, lookups |-> r.lookups,
           cache |-> r.cache]
     ELSE r

\* Lines 288-408: get_attrs, for the CommitAuthor rows in the order the query
\* returned them: what it raised, the attributes by position in item_list,
\* the lookups it made and the cache it leaves.
get_attrs(authors) ==
  IF inp.with_health_data /\ inp.no_snuba
  THEN [raised |-> TypeErrorHealth, attrs |-> <<>>, lookups |-> <<>>, cache |-> cache]
  ELSE get_attrs_lookups(authors)

\* Line 144: the CommitAuthor rows of the releases' authors, in the orders
\* the query may return them.
AuthorQueryResults ==
  LET author_ids == UNION {{inp.item_list[i].authors[j] :
                              j \in DOMAIN inp.item_list[i].authors} :
                           i \in DOMAIN inp.item_list}
      rows == {a \in inp.commit_authors : ToString(a.id) \in author_ids}
  IN {s \in [1..Cardinality(rows) -> rows] :
        \A i, j \in DOMAIN s : i # j => s[i] # s[j]}

\* The serializer computes the attributes of item_list.
GetAttrs ==
  /\ inp.given
  /\ ~out.done
  /\ \E authors \in AuthorQueryResults :
       LET r == get_attrs(authors)
       IN /\ out' = [done |-> TRUE, raised |-> r.raised, attrs |-> r.attrs,
                     lookups |-> r.lookups]
          /\ cache' = r.cache
  /\ UNCHANGED <<is_active, members, user_emails, inp>>

\* No get_attrs call is under way.
NoInput == [given |-> FALSE]

\* get_attrs has not returned.
NoOutput == [done |-> FALSE]

\* User.is_active is changed outside the serializer.
SetActive ==
  \E u \in UserIds, b \in BOOLEAN :
    /\ is_active[u] # b
    /\ is_active' = [is_active EXCEPT ![u] = b]
    /\ UNCHANGED <<cache, members, user_emails, inp, out>>

\* An OrganizationMember row is added outside the serializer.
AddMember ==
  \E o \in OrgIds, u \in UserIds :
    /\ <<o, u>> \notin members
    /\ members' = members \cup {<<o, u>>}
    /\ UNCHANGED <<cache, is_active, user_emails, inp, out>>

\* An OrganizationMember row is removed outside the serializer.
RemoveMember ==
  \E o \in OrgIds, u \in UserIds :
    /\ <<o, u>> \in members
    /\ members' = members \ {<<o, u>>}
    /\ UNCHANGED <<cache, is_active, user_emails, inp, out>>

\* The cache drops an entry (timeout or eviction).
CacheExpire ==
  \E k \in DOMAIN cache :
    /\ cache' = [x \in DOMAIN cache \ {k} |-> cache[x]]
    /\ UNCHANGED <<is_active, members, user_emails, inp, out>>

\* The UserEmail tables: one row per id, any user, any email.
UserEmailTables ==
  {{[id |-> i, user_id |-> f[i][1], email |-> f[i][2]] : i \in 1..NumUserEmails} :
     f \in [1..NumUserEmails -> UserIds \X Emails]}

Init ==
  /\ cache = EmptyDict
  /\ is_active \in [UserIds -> BOOLEAN]
  /\ members \in SUBSET (OrgIds \X UserIds)
  /\ user_emails \in UserEmailTables
  /\ inp = NoInput
  /\ out = NoOutput

Next ==
  \/ GetUsersForAuthors
  \/ SetActive
  \/ AddMember
  \/ RemoveMember
  \/ CacheExpire

Spec == Init /\ [][Next]_vars

\* ------------------------------------------------- get_users_for_authors claims

\* The calls a request can make in the current state.
Calls == OrgIds \X AuthorLists

\* What the call with arguments a = <<organization_id, authors>> does in the
\* current state.
Outcome(a) == get_users_for_authors(cache, a[1], a[2])

\* The value the call returned for author.
Returned(r, author) == r.results[ToString(author.id)]

\* Whether author is one the call missed in the cache.
IsMissed(r, author) == \E i \in DOMAIN r.missed : r.missed[i] = author

\* The UserEmail rows that match the email ignoring case and whose user is
\* active and a member of the organization.
EligibleRows(organization_id, email) ==
  {ue \in user_emails :
     /\ Lower(ue.email) = Lower(email)
     /\ is_active[ue.user_id]
     /\ <<organization_id, ue.user_id>> \in members}

\* C1: the dictionary get_users_for_authors returns has exactly the keys
\* str(a.id) of the authors passed in, whatever the cache holds, and every
\* value is a serialized user or a {name, email} dict.
C1_KeySet ==
  \A a \in Calls :
    LET r == Outcome(a)
    IN /\ DOMAIN r.results = {ToString(a[2][i].id) : i \in DOMAIN a[2]}
       /\ \A k \in DOMAIN r.results :
            \/ IsSerializedUser(r.results[k])
            \/ DOMAIN r.results[k] = {"name", "email"}

\* A call of two authors on a partly filled cache: one hit, one miss.
C1_Witness ==
  \E a \in Calls :
    LET r == Outcome(a)
    IN Len(a[2]) = 2 /\ r.fetched # EmptyDict /\ Len(r.missed) = 1

\* C2: an author whose email matches no UserEmail row gets the dict
\* representation of that same author, after any earlier calls.
C2_FallbackIsOwnAuthor ==
  \A a \in Calls :
    \A i \in DOMAIN a[2] :
      (\A ue \in user_emails : Lower(ue.email) # Lower(a[2][i].email))
        => Returned(Outcome(a), a[2][i]) = author_dict(a[2][i])

\* C3 as stated: every serialized user a call returns is active and a member
\* of the organization when the call is made.
C3_ReturnedUsersAreActiveMembers ==
  \A a \in Calls :
    LET r == Outcome(a)
    IN \A k \in DOMAIN r.results :
         IsSerializedUser(r.results[k]) =>
           \E u \in UserIds :
             /\ r.results[k] = serialize_user(u)
             /\ is_active[u]
             /\ <<a[1], u>> \in members

\* C3 amended: a serialized user returned for an author the call missed in
\* the cache is active and a member of the organization when the call is
\* made; the value returned for an author found in the cache is the cached
\* value.
C3_MissedUsersAreActiveMembers ==
  \A a \in Calls :
    LET r == Outcome(a)
    IN \A i \in DOMAIN a[2] :
         LET author == a[2][i]
             key == _user_to_author_cache_key(a[1], author)
         IN IF IsMissed(r, author)
            THEN IsSerializedUser(Returned(r, author)) =>
                   \E u \in UserIds :
                     /\ Returned(r, author) = serialize_user(u)
                     /\ is_active[u]
                     /\ <<a[1], u>> \in members
            ELSE key \in DOMAIN cache /\ Returned(r, author) = cache[key]

\* A call that serves a cached user who is no longer an active member and
\* resolves a missed author to a user.
C3_Witness ==
  \E a \in Calls :
    LET r == Outcome(a)
    IN \E i, j \in DOMAIN a[2] :
         /\ ~IsMissed(r, a[2][i])
         /\ IsSerializedUser(Returned(r, a[2][i]))
         /\ \E u \in UserIds :
              /\ Returned(r, a[2][i]) = serialize_user(u)
              /\ ~(is_active[u] /\ <<a[1], u>> \in members)
         /\ IsMissed(r, a[2][j])
         /\ IsSerializedUser(Returned(r, a[2][j]))

\* C6: a missed author whose email matches, ignoring case, at least one
\* UserEmail row of an active member of the organization is mapped to the
\* user of the lowest-id such row.
C6_LowestEligibleRowWins ==
  \A a \in Calls :
    LET r == Outcome(a)
    IN \A i \in DOMAIN r.missed :
         LET rows == EligibleRows(a[1], r.missed[i].email)
         IN rows # {} =>
              LET first == CHOOSE ue \in rows : \A q \in rows : ue.id <= q.id
              IN Returned(r, r.missed[i]) = serialize_user(first.user_id)

\* A call on a partly filled cache with a missed author whose email differs
\* in case from the matching rows, the lowest-id row belonging to a user who
\* is not an active member and a later row to one who is.
C6_Witness ==
  \E a \in Calls :
    LET r == Outcome(a)
    IN \E i \in DOMAIN r.missed :
         \E lo, hi \in user_emails :
           /\ r.fetched # EmptyDict
           /\ lo.id < hi.id
           /\ Lower(lo.email) = Lower(r.missed[i].email)
           /\ hi.email # r.missed[i].email
           /\ lo \notin EligibleRows(a[1], r.missed[i].email)
           /\ hi \in EligibleRows(a[1], r.missed[i].email)
           /\ Returned(r, r.missed[i]) = serialize_user(hi.user_id)

\* C7: after a call the cache holds, under each author's key, the value
\* returned for that author; repeating the call returns the same dictionary
\* with no author missed; the keys written are exactly the keys of the
\* missed authors and no fetched entry is rewritten.
C7_CacheHoldsReturnedValues ==
  \A a \in Calls :
    LET r == Outcome(a)
        again == get_users_for_authors(r.cache, a[1], a[2])
    IN /\ \A i \in DOMAIN a[2] :
            LET key == _user_to_author_cache_key(a[1], a[2][i])
            IN key \in DOMAIN r.cache /\ r.cache[key] = Returned(r, a[2][i])
       /\ again.results = r.results
       /\ again.missed = <<>>
       /\ DOMAIN r.to_cache =
            {_user_to_author_cache_key(a[1], r.missed[i]) : i \in DOMAIN r.missed}
       /\ DOMAIN r.to_cache \cap DOMAIN r.fetched = {}

\* ------------------------------------------------------ get_attrs inputs

ReleaseIdSet == 1..NumReleases
ProjectIds == 1..NumProjects
Times == 1..MaxTime
Counts == 0..MaxCount
EnvironmentNames == {"prod", "dev"}

\* The CommitAuthor table of the get_attrs runs: two rows whose emails differ
\* in case only.
CommitAuthorTable ==
  {[id |-> 1, name |-> NameOf(1), email |-> <<"A">>],
   [id |-> 2, name |-> NameOf(2), email |-> <<"a">>]}

\* Release.authors of a release (author ids as strings).
AuthorsOf(release_id) == IF release_id = 1 THEN <<"1", "2">> ELSE <<"2">>

\* A Release row as item_list holds it, with the _for_project_id the caller
\* set on it.
Item(release_id, for_project_id) ==
  [id |-> release_id,
   version |-> VersionOf(release_id),
   organization_id |-> 1,
   _for_project_id |-> for_project_id,
   authors |-> AuthorsOf(release_id)]

\* The sequences of at most n elements of S.
SeqsUpTo(S, n) == UNION {[1..k -> S] : k \in 0..n}

\* The item lists: distinct releases, each with any _for_project_id.
ItemLists ==
  {s \in SeqsUpTo({Item(r, p) : r \in ReleaseIdSet, p \in ProjectIds \cup {None}},
                  NumReleases) :
     \A i, j \in DOMAIN s : i # j => s[i].id # s[j].id}

\* The item lists whose releases have no _for_project_id.
PlainItemLists ==
  {s \in ItemLists : \A i \in DOMAIN s : s[i]._for_project_id = None}

\* The item lists of at most one release.
ShortItemLists == {s \in ItemLists : Len(s) <= 1}

\* ReleaseProject query results of at most n rows: one row per release and
\* project at most.
ReleaseProjectTables(n) ==
  {s \in SeqsUpTo([release_id : ReleaseIdSet, project_id : ProjectIds,
                   new_groups : Counts \cup {None}], n) :
     \A i, j \in DOMAIN s :
       i # j => <<s[i].release_id, s[i].project_id>> # <<s[j].release_id, s[j].project_id>>}

\* Release tag values of at most n rows: one row per project and version at
\* most.
TagValueTables(n) ==
  {s \in SeqsUpTo([project_id : ProjectIds,
                   value : {VersionOf(r) : r \in ReleaseIdSet},
                   first_seen : Times, last_seen : Times], n) :
     \A i, j \in DOMAIN s :
       i # j => <<s[i].project_id, s[i].value>> # <<s[j].project_id, s[j].value>>}

\* ReleaseProjectEnvironment query results of at most n rows with the given
\* timestamps and counts: one row per release, project and environment at
\* most.
ReleaseProjectEnvTables(n, times, counts) ==
  {s \in SeqsUpTo([release_id : ReleaseIdSet, project_id : ProjectIds,
                   environment : EnvironmentNames,
                   first_seen : times, last_seen : times,
                   new_issues_count : counts], n) :
     \A i, j \in DOMAIN s :
       i # j => <<s[i].release_id, s[i].project_id, s[i].environment>>
                  # <<s[j].release_id, s[j].project_id, s[j].environment>>}

\* Every release in its own project, one group each.
OneProjectPerRelease ==
  [r \in ReleaseIdSet |->
     [release_id |-> r, project_id |-> ((r - 1) % NumProjects) + 1, new_groups |-> 1]]

\* The arguments and query results of one get_attrs call.
Input(project, environment, environments, with_health_data, no_snuba, item_list, rps, tags, rpes, health) ==
  [given |-> TRUE,
   project |-> project,
   environment |-> environment,
   environments |-> environments,
   with_health_data |-> with_health_data,
   no_snuba |-> no_snuba,
   item_list |-> item_list,
   release_projects |-> rps,
   tag_values |-> tags,
   release_project_envs |-> rpes,
   commit_authors |-> CommitAuthorTable,
   health |-> health]

\* The ways the callers name environments: none, a list of names, or an
\* environment object.
EnvironmentArgs ==
  {<< <<>>, <<"prod">> >>, << <<>>, <<"prod", "dev">> >>, << <<[name |-> "dev"]>>, <<>> >>}

\* Inputs that vary the health flags.
FlagInputs ==
  {Input(project, env[1], env[2], whd, ns, items, rps, <<>>, <<>>,
         {<<1, VersionOf(1)>>}) :
     project \in {None, 1},
     env \in EnvironmentArgs \cup {<< <<>>, <<>> >>},
     whd \in BOOLEAN, ns \in BOOLEAN,
     items \in ShortItemLists,
     rps \in {<<>>, OneProjectPerRelease}}

\* Inputs that vary the tag values and the ReleaseProjectEnvironment
\* timestamps (tables of at most n rows).
SeenInputs(n) ==
  {Input(project, <<>>, <<>>, FALSE, FALSE, items, OneProjectPerRelease, tags, <<>>, {}) :
     project \in {None, 1}, items \in ItemLists, tags \in TagValueTables(n)}
  \cup
  {Input(project, env[1], env[2], FALSE, FALSE, items, OneProjectPerRelease, <<>>, rpes, {}) :
     project \in {None, 1}, env \in EnvironmentArgs, items \in PlainItemLists,
     rpes \in ReleaseProjectEnvTables(n, Times, {0})}

\* Inputs that vary the ReleaseProject rows and the new issue counts (tables
\* of at most n rows).
GroupInputs(n) ==
  {Input(project, <<>>, <<>>, FALSE, FALSE, items, rps, <<>>, <<>>, {}) :
     project \in {None} \cup ProjectIds, items \in ItemLists,
     rps \in ReleaseProjectTables(n)}
  \cup
  {Input(project, env[1], env[2], FALSE, FALSE, items, <<>>, <<>>, rpes, {}) :
     project \in {None, 1}, env \in EnvironmentArgs, items \in ShortItemLists,
     rpes \in ReleaseProjectEnvTables(n, {1}, Counts)}

\* The database the get_attrs runs resolve authors against.
InitAttrs(inputs) ==
  /\ cache = EmptyDict
  /\ is_active = [u \in UserIds |-> TRUE]
  /\ members = OrgIds \X UserIds
  /\ user_emails = {[id |-> u, user_id |-> u, email |-> <<"a">>] : u \in UserIds}
  /\ inp \in inputs
  /\ out = NoOutput

NextAttrs == GetAttrs

SpecFlags == InitAttrs(FlagInputs) /\ [][NextAttrs]_vars

SpecSeen == InitAttrs(SeenInputs(MaxRows)) /\ [][NextAttrs]_vars

SpecGroups == InitAttrs(GroupInputs(MaxRows)) /\ [][NextAttrs]_vars

\* --------------------------------------------------------- get_attrs claims

\* C4: with with_health_data and no_snuba both true get_attrs raises
\* TypeError('health data requires snuba'), returns no attributes, makes no
\* lookup and writes nothing to the cache.
C4_HealthRequiresSnuba ==
  (out.done /\ inp.with_health_data /\ inp.no_snuba) =>
    /\ out.raised = TypeErrorHealth
    /\ out.attrs = <<>>
    /\ out.lookups = <<>>
    /\ cache = EmptyDict

\* get_attrs was called with both flags on a release that has authors and a
\* ReleaseProject row, and has raised.
C4_Witness ==
  /\ out.done
  /\ inp.with_health_data
  /\ inp.no_snuba
  /\ inp.item_list # <<>>
  /\ inp.release_projects # <<>>
  /\ out.raised = TypeErrorHealth

\* The environment names get_attrs filters on, {} when it takes the
\* no-environment path.
EffectiveEnvironments ==
  IF inp.environments # <<>>
  THEN {inp.environments[i] : i \in DOMAIN inp.environments}
  ELSE IF inp.environment # <<>> THEN {inp.environment[1].name}
  ELSE {}

\* The projects whose tag values the no-environment path reads.
TagProjects ==
  IF inp.project # None THEN {inp.project}
  ELSE IF \A i \in DOMAIN inp.item_list : inp.item_list[i]._for_project_id # None
  THEN {inp.item_list[i]._for_project_id : i \in DOMAIN inp.item_list}
  ELSE {inp.release_projects[j].project_id :
          j \in {k \in DOMAIN inp.release_projects :
                   \E i \in DOMAIN inp.item_list :
                     inp.item_list[i].id = inp.release_projects[k].release_id}}

\* The <<first_seen, last_seen>> pairs of the rows that match a release's
\* version.
SeenRows(item) ==
  IF EffectiveEnvironments = {}
  THEN {<<inp.tag_values[j].first_seen, inp.tag_values[j].last_seen>> :
          j \in {k \in DOMAIN inp.tag_values :
                   /\ inp.tag_values[k].value = item.version
                   /\ inp.tag_values[k].project_id \in TagProjects}}
  ELSE {<<inp.release_project_envs[j].first_seen, inp.release_project_envs[j].last_seen>> :
          j \in {k \in DOMAIN inp.release_project_envs :
                   /\ VersionOf(inp.release_project_envs[k].release_id) = item.version
                   /\ \E i \in DOMAIN inp.item_list :
                        inp.item_list[i].id = inp.release_project_envs[k].release_id
                   /\ inp.release_project_envs[k].environment \in EffectiveEnvironments
                   /\ inp.project # None =>
                        inp.release_project_envs[k].project_id = inp.project}}

\* C5: in the attributes get_attrs returns, a release whose version has
\* matching rows has first_seen the least of their first_seen and last_seen
\* the greatest of their last_seen, whatever the order of the rows; a version
\* with no row has None for both.
C5_FirstLastSeen ==
  (out.done /\ out.raised = "") =>
    \A i \in DOMAIN inp.item_list :
      LET rows == SeenRows(inp.item_list[i])
      IN IF rows = {}
         THEN out.attrs[i].first_seen = None /\ out.attrs[i].last_seen = None
         ELSE /\ \E r \in rows : out.attrs[i].first_seen = r[1]
              /\ \A r \in rows : out.attrs[i].first_seen <= r[1]
              /\ \E r \in rows : out.attrs[i].last_seen = r[2]
              /\ \A r \in rows : out.attrs[i].last_seen >= r[2]

\* get_attrs has returned on the no-environment path for a version with two
\* tag values, the second with the earlier first_seen and the first with the
\* later last_seen.
C5_Witness ==
  /\ out.done
  /\ out.raised = ""
  /\ EffectiveEnvironments = {}
  /\ Len(inp.item_list) >= 1
  /\ Len(inp.tag_values) = 2
  /\ inp.tag_values[1].value = inp.item_list[1].version
  /\ inp.tag_values[2].value = inp.item_list[1].version
  /\ inp.tag_values[2].first_seen < inp.tag_values[1].first_seen
  /\ inp.tag_values[2].last_seen < inp.tag_values[1].last_seen
  /\ out.attrs[1].first_seen = inp.tag_values[2].first_seen
  /\ out.attrs[1].last_seen = inp.tag_values[1].last_seen

\* The count recorded for a project under a release, None when there is no
\* row: the ReleaseProject row's new_groups, or with environments the
\* new_issues_count of the last matching ReleaseProjectEnvironment row.
RecordedCount(item, project_id) ==
  IF EffectiveEnvironments = {}
  THEN LET rows == {k \in DOMAIN inp.release_projects :
                      /\ inp.release_projects[k].release_id = item.id
                      /\ inp.release_projects[k].project_id = project_id}
       IN IF rows = {} THEN None
          ELSE inp.release_projects[CHOOSE k \in rows : TRUE].new_groups
  ELSE LET rows == {k \in DOMAIN inp.release_project_envs :
                      /\ inp.release_project_envs[k].release_id = item.id
                      /\ inp.release_project_envs[k].project_id = project_id
                      /\ inp.release_project_envs[k].environment \in EffectiveEnvironments}
       IN IF rows = {} THEN None
          ELSE inp.release_project_envs[CHOOSE k \in rows : \A j \in rows : j <= k]
                 .new_issues_count

\* The projects get_attrs records counts for: the project argument when one
\* is given, every project otherwise.
RecordedProjects == IF inp.project # None THEN {inp.project} ELSE ProjectIds

RECURSIVE SumRecorded(_, _)
SumRecorded(item, projects) ==
  IF projects = {} THEN 0
  ELSE LET p == CHOOSE x \in projects : TRUE
           c == RecordedCount(item, p)
       IN (IF c = None THEN 0 ELSE c) + SumRecorded(item, projects \ {p})

\* The new_groups C8 states for a release.
ExpectedNewGroups(item) ==
  IF item._for_project_id # None
  THEN IF item._for_project_id \in RecordedProjects
          /\ RecordedCount(item, item._for_project_id) # None
       THEN RecordedCount(item, item._for_project_id)
       ELSE 0
  ELSE SumRecorded(item, RecordedProjects)

\* C8: for every release of item_list get_attrs produces a new_groups that
\* is a non-negative integer: the count recorded for _for_project_id (0 when
\* none or null) or, without _for_project_id, the sum of the recorded counts.
C8_NewGroups ==
  out.done =>
    /\ out.raised = ""
    /\ \A i \in DOMAIN inp.item_list :
         /\ out.attrs[i].new_groups \in Nat
         /\ out.attrs[i].new_groups = ExpectedNewGroups(inp.item_list[i])

\* The positions of the ReleaseProject rows of a release.
RowsOfRelease(item) ==
  {k \in DOMAIN inp.release_projects : inp.release_projects[k].release_id = item.id}

\* C9: in the attributes get_attrs returns, the projects of a release are
\* entries of ReleaseProject rows of that release only: those of
\* _for_project_id when it is set, one per row otherwise, none when the
\* release has no row.
C9_Projects ==
  (out.done /\ out.raised = "") =>
    \A i \in DOMAIN inp.item_list :
      LET item == inp.item_list[i]
          projects == out.attrs[i].projects
          rows == IF item._for_project_id # None
                  THEN {k \in RowsOfRelease(item) :
                          inp.release_projects[k].project_id = item._for_project_id}
                  ELSE RowsOfRelease(item)
      IN /\ Len(projects) = Cardinality(rows)
         /\ \A k \in rows :
              \E j \in DOMAIN projects :
                /\ projects[j].id = inp.release_projects[k].project_id
                /\ projects[j].new_groups = inp.release_projects[k].new_groups
         /\ \A j \in DOMAIN projects :
              \E k \in rows : projects[j].id = inp.release_projects[k].project_id
         /\ RowsOfRelease(item) = {} => projects = <<>>

\* get_attrs has returned for two releases: one with _for_project_id set and
\* rows in two projects, of which one entry is kept, and one that has no
\* row.
C9_Witness ==
  /\ out.done
  /\ out.raised = ""
  /\ \E i, j \in DOMAIN inp.item_list :
       /\ inp.item_list[i]._for_project_id # None
       /\ Cardinality(RowsOfRelease(inp.item_list[i])) = 2
       /\ Len(out.attrs[i].projects) = 1
       /\ RowsOfRelease(inp.item_list[j]) = {}
       /\ out.attrs[j].projects = <<>>

====
